---- MODULE Spec2Model ----
(***************************************************************************)
(* Synchronous webhook transport of saleor                                 *)
(* (saleor/webhook/transport/synchronous/transport.py).                    *)
(*                                                                         *)
(* Every public entry point of the file is one action; the functions it    *)
(* calls are operators that return the values and the effects of the call. *)
(* `last` is the record of the most recent call: its inputs, its result,   *)
(* whether it raised, and `trace`, the calls it made to its collaborators  *)
(* in program order.                                                       *)
(***************************************************************************)
EXTENDS Integers, Sequences, FiniteSets, TLC

VARIABLES
    cache,       \* the response cache: cache key -> cached parsed body
    deliveries,  \* persisted EventDelivery rows: id -> row
    payloads,    \* ids of the persisted EventPayload rows
    events,      \* ids of the TransactionEvent rows that still exist
    tasks,       \* queued handle_transaction_request_task messages
    breaker_board, \* whether initialize_breaker_board() returned a breaker
    taxes,       \* the running call of trigger_taxes_all_webhooks_sync
    procs,       \* the running calls of trigger_webhook_sync_if_not_cached, by process
    last         \* the most recent call

vars == <<cache, deliveries, payloads, events, tasks, breaker_board, taxes, procs, last>>

(***************************************************************************)
(* Bounds of the model.                                                    *)
(***************************************************************************)
MaxDeliveries == 1      \* persisted deliveries
MaxRegistry == 3        \* webhooks registered for one event type

(***************************************************************************)
(* Values.                                                                 *)
(***************************************************************************)
PENDING == "pending"
SUCCESS == "success"
FAILED == "failed"

\* Python values a response body parses to: None and JSON objects (an object
\* is told apart by the number of tax lines it carries; 0 when it has none).
PyNone == [kind |-> "None", lines |-> 0]
PyObject(n) == [kind |-> "object", lines |-> n]

\* Response bodies as text.
Contents == {"{\"ok\":true}", "{\"lines\":[1,2]}", "null", "not-json", "ConnectionError"}

\* json.loads: whether the text decodes, and what it decodes to.
JSONDecodeError(content) == content \notin {"{\"ok\":true}", "{\"lines\":[1,2]}", "null"}

json_loads(content) ==
    CASE content = "{\"ok\":true}" -> PyObject(0)
      [] content = "{\"lines\":[1,2]}" -> PyObject(2)
      [] content = "null" -> PyNone

(***************************************************************************)
(* Webhooks: external, read-only subscriber descriptors. A target URL is   *)
(* the pair <<scheme, rest>> that urlparse splits it into.                 *)
(***************************************************************************)
WebhookNames == {"plain", "sub", "plain2", "queue"}

WebhookOf ==
    [n \in WebhookNames |->
        CASE n = "plain"  -> [target_url |-> <<"http", "//tax-a/hook">>,
                              subscription_query |-> FALSE, app_id |-> "app1"]
          [] n = "sub"    -> [target_url |-> <<"HTTPS", "//tax-b/hook">>,
                              subscription_query |-> TRUE, app_id |-> "app2"]
          [] n = "plain2" -> [target_url |-> <<"https", "//tax-c/hook">>,
                              subscription_query |-> FALSE, app_id |-> "app1"]
          [] n = "queue"  -> [target_url |-> <<"awssqs", "//queue">>,
                              subscription_query |-> FALSE, app_id |-> "app3"]]

urlparse_scheme(target_url) == target_url[1]

lower(s) ==
    CASE s = "HTTP" -> "http"
      [] s = "HTTPS" -> "https"
      [] OTHER -> s

WebhookSchemes_HTTP == "http"
WebhookSchemes_HTTPS == "https"

(***************************************************************************)
(* The subscriber's answer to one HTTP call: a status code (0 when there   *)
(* is none: connection error or timeout) and a body.                       *)
(***************************************************************************)
Answers ==
    { [code |-> 200, content |-> "{\"ok\":true}"],
      [code |-> 200, content |-> "{\"lines\":[1,2]}"],
      [code |-> 200, content |-> "null"],
      [code |-> 200, content |-> "not-json"],
      [code |-> 404, content |-> "{\"ok\":true}"],
      [code |-> 503, content |-> "{\"lines\":[1,2]}"],
      [code |-> 0,   content |-> "ConnectionError"] }

\* send_webhook_using_http: one blocking call, normalized to a WebhookResponse.
\* response_status_code 0 stands for None.
send_webhook_using_http(answer) ==
    [content |-> answer.content,
     status |-> IF answer.code \in 200..299 THEN SUCCESS ELSE FAILED,
     response_status_code |-> answer.code]

(***************************************************************************)
(* Ledger helpers.                                                         *)
(***************************************************************************)
\* EventDelivery(...): id 0 is an unsaved object.
EventDelivery(id, event_type, webhook, payload) ==
    [id |-> id, status |-> PENDING, event_type |-> event_type,
     webhook |-> webhook, payload |-> payload]

\* create_attempt: a new attempt bound to the delivery; task_id "" is None.
create_attempt(delivery, task_id, with_save) ==
    [delivery |-> delivery.id, task_id |-> task_id, saved |-> with_save,
     status |-> PENDING, response |-> ""]

attempt_update(attempt, response) ==
    [attempt EXCEPT !.status = response.status, !.response = response.content]

delivery_update(delivery, status) == [delivery EXCEPT !.status = status]

NoAttempt == [delivery |-> 0, task_id |-> "", saved |-> FALSE,
              status |-> "no-attempt", response |-> ""]

NoResponse == [content |-> "", status |-> FAILED, response_status_code |-> 0]

(***************************************************************************)
(* _send_webhook_request_sync (lines 105-180), named p_send_... here.      *)
(* Returns the raised exception ("" when none), the response, the parsed   *)
(* body, the delivery and the attempt as the call leaves them, and the     *)
(* trace of the calls made.                                                *)
(***************************************************************************)
\* Mutant: the error is raised with the delivery left as it was.
UnknownSchemeNoUpdate(delivery, attempt) ==
    [raised |-> "ValueError",
     response |-> NoResponse,
     response_data |-> PyNone,
     delivery |-> delivery,
     attempt |-> attempt,
     trace |-> << <<"record_external_request", FAILED>>,
                  <<"raise", "ValueError">> >>]

\* Lines 119-122: the scheme is neither http nor https.
UnknownScheme(delivery, attempt) ==
    [raised |-> "ValueError",
     response |-> NoResponse,
     response_data |-> PyNone,
     delivery |-> delivery_update(delivery, FAILED),
     attempt |-> attempt,
     trace |-> << <<"delivery_update", FAILED>>,
                  <<"record_external_request", FAILED>>,
                  <<"raise", "ValueError">> >>]

\* Mutant: the content is decoded only when the response's status is SUCCESS.
ParseResponseIfSuccess(sent) ==
    IF JSONDecodeError(sent.content)
    THEN [response |-> [sent EXCEPT !.status = FAILED], response_data |-> PyNone]
    ELSE [response |-> sent,
          response_data |-> IF sent.status = SUCCESS THEN json_loads(sent.content)
                                                     ELSE PyNone]

\* Lines 145-154: json.loads of the response content; a JSONDecodeError sets
\* the response's status to FAILED and leaves response_data None.
ParseResponse(sent) ==
    IF JSONDecodeError(sent.content)
    THEN [response |-> [sent EXCEPT !.status = FAILED], response_data |-> PyNone]
    ELSE [response |-> sent, response_data |-> json_loads(sent.content)]

\* Lines 129-130: the attempt of this send.
AttemptOfSend(delivery, attempt) ==
    IF attempt = NoAttempt THEN create_attempt(delivery, "", FALSE) ELSE attempt

AttemptTrace(delivery, attempt) ==
    IF attempt = NoAttempt THEN << <<"create_attempt", delivery.webhook>> >> ELSE << >>

\* Mutant: the send is recorded on the attempt and the delivery left as it was.
SendAndRecordNoDeliveryUpdate(delivery, attempt, c) ==
    [raised |-> "",
     response |-> c.response,
     response_data |-> c.response_data,
     delivery |-> delivery,
     attempt |-> attempt_update(AttemptOfSend(delivery, attempt), c.response),
     trace |-> AttemptTrace(delivery, attempt)
               \o << <<"send_webhook_using_http", delivery.webhook>>,
                     <<"record_external_request", c.response.status>>,
                     <<"attempt_update", c.response.status>>,
                     <<"report_event_delivery_attempt", c.response.status>>,
                     <<"save_unsuccessful_delivery_attempt", c.response.status>>,
                     <<"clear_successful_delivery", c.response.status>> >>]

\* Mutant: the delivery is updated before the attempt.
SendAndRecordDeliveryFirst(delivery, attempt, c) ==
    [raised |-> "",
     response |-> c.response,
     response_data |-> c.response_data,
     delivery |-> delivery_update(delivery, c.response.status),
     attempt |-> attempt_update(AttemptOfSend(delivery, attempt), c.response),
     trace |-> AttemptTrace(delivery, attempt)
               \o << <<"send_webhook_using_http", delivery.webhook>>,
                     <<"record_external_request", c.response.status>>,
                     <<"delivery_update", c.response.status>>,
                     <<"attempt_update", c.response.status>>,
                     <<"report_event_delivery_attempt", c.response.status>>,
                     <<"save_unsuccessful_delivery_attempt", c.response.status>>,
                     <<"clear_successful_delivery", c.response.status>> >>]

\* Lines 132-180: the send, its classification and the bookkeeping after it.
SendAndRecord(delivery, attempt, c) ==
    [raised |-> "",
     response |-> c.response,
     response_data |-> c.response_data,
     delivery |-> delivery_update(delivery, c.response.status),
     attempt |-> attempt_update(AttemptOfSend(delivery, attempt), c.response),
     trace |-> AttemptTrace(delivery, attempt)
               \o << <<"send_webhook_using_http", delivery.webhook>>,
                     <<"record_external_request", c.response.status>>,
                     <<"attempt_update", c.response.status>>,
                     <<"delivery_update", c.response.status>>,
                     <<"report_event_delivery_attempt", c.response.status>>,
                     <<"save_unsuccessful_delivery_attempt", c.response.status>>,
                     <<"clear_successful_delivery", c.response.status>> >>]

p_send_webhook_request_sync(delivery, attempt, answer) ==
    IF lower(urlparse_scheme(WebhookOf[delivery.webhook].target_url))
           \notin {WebhookSchemes_HTTP, WebhookSchemes_HTTPS}
    THEN UnknownScheme(delivery, attempt)
    ELSE SendAndRecord(delivery, attempt, ParseResponse(send_webhook_using_http(answer)))

\* One dispatcher call as `last.sends` records it: the entry point it was made
\* through, the delivery before the call, whether the caller supplied the
\* attempt, the subscriber's answer, what the dispatcher returned (out) and
\* what the entry point handed to its caller (returned).
SendRecord(via, delivery, attempt, answer, out, returned) ==
    [via |-> via, before |-> delivery, supplied |-> attempt # NoAttempt,
     answer |-> answer, out |-> out, returned |-> returned]

\* Mutant: the parsed body whatever the status.
BodyWhateverStatus(response, response_data) == response_data

\* Line 187: the parsed body only when the status is SUCCESS.
BodyIfSuccess(response, response_data) ==
    IF response.status = SUCCESS THEN response_data ELSE PyNone

\* A call's outcome: the exception raised ("" when none), the result, the
\* dispatcher calls made and the trace.
Call(raised, result, sends, trace) ==
    [raised |-> raised, result |-> result, sends |-> sends, trace |-> trace]

NoCall == Call("", PyNone, << >>, << >>)

Prepend(trace, call) == [call EXCEPT !.trace = trace \o call.trace]

\* send_webhook_request_sync (lines 183-187).
SyncCallOf(delivery, answer, out) ==
    Call(out.raised,
         IF out.raised = "" THEN BodyIfSuccess(out.response, out.response_data)
                            ELSE PyNone,
         << SendRecord("send_webhook_request_sync", delivery, NoAttempt, answer, out,
                       BodyIfSuccess(out.response, out.response_data)) >>,
         out.trace)

send_webhook_request_sync(delivery, answer) ==
    SyncCallOf(delivery, answer, p_send_webhook_request_sync(delivery, NoAttempt, answer))

(***************************************************************************)
(* Payload and delivery factory.                                           *)
(***************************************************************************)
EventTypes == {"CHECKOUT_CALCULATE_TAXES", "TRANSACTION_CHARGE_REQUESTED", "UNSUBSCRIBABLE"}

\* The event types that have a subscription type.
WEBHOOK_TYPES_MAP == {"CHECKOUT_CALCULATE_TAXES", "TRANSACTION_CHARGE_REQUESTED"}

\* Payload data: "" is the empty value (None or {}), which Python reads as false.
json_dumps(data) ==
    CASE data = "gen-data" -> "{\"gen\":1}"
      [] data = "pre-data" -> "{\"pre\":1}"

NoDelivery == [id |-> 0, status |-> "no-delivery", event_type |-> "",
               webhook |-> "", payload |-> ""]

Made(raised, delivery, saved, trace) ==
    [raised |-> raised, delivery |-> delivery, saved |-> saved, trace |-> trace]

\* Lines 271-280: the payload data, generated unless a pregenerated one is given.
PayloadData(generated, pregenerated_payload) ==
    IF pregenerated_payload = "" THEN generated ELSE pregenerated_payload

GenerateTrace(webhook, pregenerated_payload) ==
    IF pregenerated_payload = ""
    THEN << <<"generate_payload_from_subscription", webhook>> >>
    ELSE << >>

\* create_delivery_for_subscription_sync_event (lines 234-302). `generated` is
\* what generate_payload_from_subscription yields for this webhook ("" for no
\* data, "PaymentError" when it raises); `new_id` is the id the database gives
\* the delivery when with_save holds.
create_delivery_for_subscription_sync_event(event_type, webhook, generated, pregenerated_payload, with_save, new_id) ==
    IF event_type \notin WEBHOOK_TYPES_MAP
    THEN Made("", NoDelivery, FALSE, << >>)
    ELSE IF PayloadData(generated, pregenerated_payload) = "PaymentError"
    THEN Made("PaymentError", NoDelivery, FALSE, GenerateTrace(webhook, pregenerated_payload))
    ELSE IF PayloadData(generated, pregenerated_payload) = ""
    THEN Made("", NoDelivery, FALSE, GenerateTrace(webhook, pregenerated_payload))
    ELSE Made("",
              EventDelivery(IF with_save THEN new_id ELSE 0, event_type, webhook,
                            json_dumps(PayloadData(generated, pregenerated_payload))),
              with_save,
              GenerateTrace(webhook, pregenerated_payload)
                  \o << <<"EventDelivery", webhook>> >>)

(***************************************************************************)
(* trigger_webhook_sync (lines 305-342) and its circuit-breaker wrapping   *)
(* (lines 345-346).                                                        *)
(***************************************************************************)
\* Lines 318-329 and 342: the subscription branch, given the factory's outcome.
SendMade(made, answer) ==
    IF made.raised # "" THEN Call(made.raised, PyNone, << >>, made.trace)
    ELSE IF made.delivery = NoDelivery THEN Call("", PyNone, << >>, made.trace)
    ELSE Prepend(made.trace, send_webhook_request_sync(made.delivery, answer))

trigger_webhook_sync_undecorated(event_type, payload, webhook, generated, pregenerated, answer) ==
    IF WebhookOf[webhook].subscription_query
    THEN SendMade(create_delivery_for_subscription_sync_event(
                      event_type, webhook, generated, pregenerated, FALSE, 0),
                  answer)
    ELSE Prepend(<< <<"EventDelivery", webhook>> >>,
                 send_webhook_request_sync(
                     EventDelivery(0, event_type, webhook, payload), answer))

\* The breaker's decorator: with the breaker open for the endpoint it returns
\* None without calling the wrapped function; otherwise it passes the call on.
breaker_decorated(open, call) ==
    IF open
    THEN Call("", PyNone, << >>, << <<"breaker_board", "open">> >>)
    ELSE Prepend(<< <<"breaker_board", "pass">> >>, call)

\* Mutant: trigger_webhook_sync is left as defined whatever the configuration.
DecorateNever(configured, open, call) == call

Decorate(configured, open, call) ==
    IF configured THEN breaker_decorated(open, call) ELSE call

trigger_webhook_sync(configured, open, event_type, payload, webhook, generated, pregenerated, answer) ==
    Decorate(configured, open,
             trigger_webhook_sync_undecorated(event_type, payload, webhook,
                                              generated, pregenerated, answer))

(***************************************************************************)
(* trigger_webhook_sync_if_not_cached (lines 190-231).                     *)
(***************************************************************************)
CacheData == {"cart-1", "cart-2"}

generate_cache_key_for_webhook(cache_data, target_url, event_type, app_id) ==
    <<cache_data, target_url, event_type, app_id>>

KeyOf(cache_data, webhook, event_type) ==
    generate_cache_key_for_webhook(cache_data, WebhookOf[webhook].target_url,
                                   event_type, WebhookOf[webhook].app_id)

cache_get(c, key) == IF key \in DOMAIN c THEN c[key] ELSE PyNone

cache_set(c, key, value) ==
    [k \in DOMAIN c \cup {key} |-> IF k = key THEN value ELSE c[k]]

\* Mutant: the result is stored whatever it is.
CacheAfterMissAlways(c, key, response_data) == cache_set(c, key, response_data)

\* Mutant: the result is stored only under a key that holds nothing.
CacheAfterMissAdd(c, key, response_data) ==
    IF response_data # PyNone /\ key \notin DOMAIN c THEN cache_set(c, key, response_data) ELSE c

\* Lines 225-230: what the cache holds after a miss that produced response_data.
CacheAfterMiss(c, key, response_data) ==
    IF response_data # PyNone THEN cache_set(c, key, response_data) ELSE c

Cached(key, hit, call, c) == [key |-> key, hit |-> hit, call |-> call, cache |-> c]

\* Lines 213-231: the cache missed; `call` is trigger_webhook_sync's outcome.
Missed(c, key, call) ==
    Cached(key, FALSE, call,
           IF call.raised # "" THEN c ELSE CacheAfterMiss(c, key, call.result))

\* Mutant: the cache is not consulted.
trigger_webhook_sync_uncached(c, configured, open, event_type, payload, webhook, cache_data, generated, pregenerated, answer) ==
    Missed(c, KeyOf(cache_data, webhook, event_type),
           trigger_webhook_sync(configured, open, event_type, payload, webhook,
                                generated, pregenerated, answer))

trigger_webhook_sync_if_not_cached(c, configured, open, event_type, payload, webhook, cache_data, generated, pregenerated, answer) ==
    IF cache_get(c, KeyOf(cache_data, webhook, event_type)) # PyNone
    THEN Cached(KeyOf(cache_data, webhook, event_type), TRUE,
                Call("", cache_get(c, KeyOf(cache_data, webhook, event_type)),
                     << >>, << >>),
                c)
    ELSE Missed(c, KeyOf(cache_data, webhook, event_type),
                trigger_webhook_sync(configured, open, event_type, payload, webhook,
                                     generated, pregenerated, answer))

(***************************************************************************)
(* trigger_taxes_all_webhooks_sync (lines 349-417), one webhook of the     *)
(* loop at a time. `taxes` holds the call: its arguments, the loop's       *)
(* position idx in webhooks, whether request_context and event_payload     *)
(* have been built, and what the call has done so far.                     *)
(***************************************************************************)
\* parse_tax_data: the validated tax data, or a ValidationError.
ValidationError(response_data, expected_lines_count) ==
    ~(response_data.kind = "object" /\ response_data.lines = expected_lines_count)

parse_tax_data(response_data, expected_lines_count) ==
    [kind |-> "TaxData", lines |-> response_data.lines]

NoTaxes ==
    [pc |-> "idle", event_type |-> "", webhooks |-> << >>, expected_lines_count |-> 0,
     generated |-> "", pregenerated |-> "", idx |-> 0, request_context |-> FALSE,
     event_payload |-> FALSE, result |-> PyNone, raised |-> "", sends |-> << >>,
     trace |-> << >>]

\* Lines 365-370: the call begins.
TaxesCalled(event_type, webhooks, expected_lines_count, generated, pregenerated) ==
    [NoTaxes EXCEPT !.pc = "loop", !.event_type = event_type, !.webhooks = webhooks,
                    !.expected_lines_count = expected_lines_count,
                    !.generated = generated, !.pregenerated = pregenerated, !.idx = 1]

\* Mutant: an invalid response ends the call with None.
TaxesAfterSendGiveUp(t, call) ==
    IF call.raised # ""
    THEN [t EXCEPT !.pc = "raised", !.raised = call.raised]
    ELSE IF ValidationError(call.result, t.expected_lines_count)
    THEN [t EXCEPT !.pc = "returned", !.result = PyNone]
    ELSE [t EXCEPT !.pc = "returned",
                   !.result = parse_tax_data(call.result, t.expected_lines_count)]

\* Mutant: the loop goes on after a valid response.
TaxesAfterSendGoOn(t, call) ==
    IF call.raised # ""
    THEN [t EXCEPT !.pc = "raised", !.raised = call.raised]
    ELSE IF ValidationError(call.result, t.expected_lines_count)
    THEN [t EXCEPT !.idx = t.idx + 1]
    ELSE [t EXCEPT !.idx = t.idx + 1,
                   !.result = parse_tax_data(call.result, t.expected_lines_count)]

\* Lines 405-416: after send_webhook_request_sync, whose outcome is `call`.
TaxesAfterSend(t, call) ==
    IF call.raised # ""
    THEN [t EXCEPT !.pc = "raised", !.raised = call.raised]
    ELSE IF ValidationError(call.result, t.expected_lines_count)
    THEN [t EXCEPT !.idx = t.idx + 1]
    ELSE [t EXCEPT !.pc = "returned",
                   !.result = parse_tax_data(call.result, t.expected_lines_count)]

TaxesSent(t, call) ==
    TaxesAfterSend([t EXCEPT !.sends = t.sends \o call.sends,
                             !.trace = t.trace \o call.trace], call)

\* Lines 384-394: the subscription branch, given the factory's outcome.
TaxesMade(t, made, answer) ==
    IF made.delivery = NoDelivery
    THEN [t EXCEPT !.pc = "returned", !.result = PyNone, !.trace = t.trace \o made.trace]
    ELSE TaxesSent([t EXCEPT !.trace = t.trace \o made.trace],
                   send_webhook_request_sync(made.delivery, answer))

\* Lines 373-378: request_context is built once.
TaxesContext(t) ==
    IF t.request_context THEN t
    ELSE [t EXCEPT !.request_context = TRUE,
                   !.trace = t.trace \o << <<"initialize_request", t.event_type>> >>]

\* Lines 396-397: event_payload is built once.
TaxesPayload(t) ==
    IF t.event_payload THEN t
    ELSE [t EXCEPT !.event_payload = TRUE,
                   !.trace = t.trace \o << <<"generate_payload", t.event_type>> >>]

\* Lines 371-416: the loop's body for webhook.
TaxesBody(t, webhook, answer) ==
    IF WebhookOf[webhook].subscription_query
    THEN TaxesMade(TaxesContext(t),
                   create_delivery_for_subscription_sync_event(
                       t.event_type, webhook, t.generated, t.pregenerated, FALSE, 0),
                   answer)
    ELSE TaxesSent([TaxesPayload(t) EXCEPT
                        !.trace = TaxesPayload(t).trace \o << <<"EventDelivery", webhook>> >>],
                   send_webhook_request_sync(
                       EventDelivery(0, t.event_type, webhook, "static-payload"), answer))

(***************************************************************************)
(* trigger_transaction_request (lines 420-485).                            *)
(***************************************************************************)
\* The webhooks registered for the transaction events, in registry order.
TxRegistry == <<"plain", "sub", "plain2", "queue">>

\* get_webhooks_for_event(event_type, apps_ids=[owner]).first(); "" for None.
WebhooksOf(owner) ==
    { n \in 1..Len(TxRegistry) : WebhookOf[TxRegistry[n]].app_id = owner }

FirstWebhookOf(owner) ==
    IF WebhooksOf(owner) = {} THEN ""
    ELSE TxRegistry[CHOOSE n \in WebhooksOf(owner) : \A m \in WebhooksOf(owner) : n <= m]

\* What a call of trigger_transaction_request does: the failed transaction
\* event it creates (trace), the delivery it persists (NoDelivery when none)
\* and the task messages it enqueues.
Requested(raised, delivery, scheduled, trace) ==
    [raised |-> raised, delivery |-> delivery, scheduled |-> scheduled, trace |-> trace]

\* Mutant: the failed event is created and the refundable amount left alone.
FailedRequestNoRecalculation(cause, trace) ==
    Requested("", NoDelivery, << >>,
              trace \o << <<"create_failed_transaction_event", cause>> >>)

\* Lines 424-434, 439-446 and 459-466: the request fails locally.
FailedRequest(cause, trace) ==
    Requested("", NoDelivery, << >>,
              trace \o << <<"create_failed_transaction_event", cause>>,
                          <<"recalculate_refundable_for_checkout", cause>> >>)

TaskMessage(delivery_id, request_event_id, retries) ==
    [delivery_id |-> delivery_id, request_event_id |-> request_event_id,
     retries |-> retries]

\* Mutant: the task is enqueued and a failed transaction event created too.
EnqueuedWithFailedEvent(delivery, request_event_id, trace) ==
    Requested("", delivery, << TaskMessage(delivery.id, request_event_id, 0) >>,
              trace \o << <<"create_failed_transaction_event", delivery.webhook>>,
                          <<"handle_transaction_request_task.delay", delivery.webhook>> >>)

\* Lines 481-485: the task is handed the delivery's id and the event's id.
Enqueued(delivery, request_event_id, trace) ==
    Requested("", delivery, << TaskMessage(delivery.id, request_event_id, 0) >>,
              trace \o << <<"handle_transaction_request_task.delay", delivery.webhook>> >>)

\* Lines 448-466: the subscription branch, given the factory's outcome; a
\* PaymentError is caught and leaves no delivery.
RequestMade(made, request_event_id) ==
    IF made.delivery = NoDelivery
    THEN FailedRequest("Cannot generate a payload for the action.",
                       made.trace \o (IF made.raised = "PaymentError"
                                      THEN << <<"logger.warning", "PaymentError">> >>
                                      ELSE << >>))
    ELSE Enqueued(made.delivery, request_event_id, made.trace)

trigger_transaction_request(owner, request_event_id, event_type, generated, new_id) ==
    IF owner = ""
    THEN FailedRequest("Cannot process the action as the given transaction is not attached to any app.", << >>)
    ELSE IF FirstWebhookOf(owner) = ""
    THEN FailedRequest("Cannot find a webhook that can process the action.", << >>)
    ELSE IF WebhookOf[FirstWebhookOf(owner)].subscription_query
    THEN RequestMade(create_delivery_for_subscription_sync_event(
                         event_type, FirstWebhookOf(owner), generated, "", TRUE, new_id),
                     request_event_id)
    ELSE Enqueued(EventDelivery(new_id, event_type, FirstWebhookOf(owner),
                                "transaction-action-payload"),
                  request_event_id,
                  << <<"generate_transaction_action_request_payload", owner>>,
                     <<"EventDelivery", FirstWebhookOf(owner)>> >>)

(***************************************************************************)
(* handle_transaction_request_task (lines 71-102).                         *)
(***************************************************************************)
max_retries == 5
retry_backoff == 10

Pow2(n) == IF n = 0 THEN 1 ELSE IF n = 1 THEN 2 ELSE IF n = 2 THEN 4
           ELSE IF n = 3 THEN 8 ELSE IF n = 4 THEN 16 ELSE 32

\* What one execution of the task does: the delivery as it leaves it
\* (NoDelivery when it touched none), the messages it enqueues, the
\* dispatcher calls it makes and its trace.
Executed(raised, delivery, scheduled, sends, trace) ==
    [raised |-> raised, delivery |-> delivery, scheduled |-> scheduled,
     sends |-> sends, trace |-> trace]

\* Mutant: a client error is retried too.
NeedsRetry400(response) ==
    response.response_status_code # 0 /\ response.response_status_code >= 400

\* Mutant: any response that carries a status code is retried.
NeedsRetryAlways(response) == response.response_status_code # 0

\* Line 95: the response carries a status code of 500 or more.
NeedsRetry(response) ==
    response.response_status_code # 0 /\ response.response_status_code >= 500

\* handle_webhook_retry: asks the task framework for a retry after
\* retry_backoff * 2^retries seconds and returns; when max_retries retries
\* have been made no retry is scheduled and the delivery is marked FAILED.
handle_webhook_retry(msg) ==
    IF msg.retries < max_retries
    THEN [scheduled |-> << [msg EXCEPT !.retries = msg.retries + 1] >>,
          trace |-> << <<"handle_webhook_retry",
                         ToString(retry_backoff * Pow2(msg.retries))>> >>]
    ELSE [scheduled |-> << >>,
          trace |-> << <<"handle_webhook_retry", "MaxRetriesExceededError">>,
                       <<"delivery_update", FAILED>> >>]

FinalizeTrace(response_data) ==
    << <<"create_transaction_event_from_request_and_webhook_response",
         response_data.kind>> >>

\* Mutant: the parsed body of a 5xx response is kept.
AfterDispatchKeepBody(msg, out, retry) ==
    IF out.raised # ""
    THEN Executed(out.raised, out.delivery, << >>, << >>, out.trace)
    ELSE IF NeedsRetry(out.response)
    THEN Executed("", out.delivery, retry.scheduled, << >>,
                  out.trace \o retry.trace \o FinalizeTrace(out.response_data))
    ELSE Executed("", out.delivery, << >>, << >>,
                  out.trace \o FinalizeTrace(out.response_data))

\* Mutant: after a 5xx response the task submits itself again whatever
\* handle_webhook_retry decided.
AfterDispatchResubmit(msg, out, retry) ==
    IF out.raised # ""
    THEN Executed(out.raised, out.delivery, << >>, << >>, out.trace)
    ELSE IF NeedsRetry(out.response)
    THEN Executed("", out.delivery,
                  << [msg EXCEPT !.retries = IF @ < max_retries THEN @ + 1 ELSE @] >>,
                  << >>, out.trace \o retry.trace \o FinalizeTrace(PyNone))
    ELSE Executed("", out.delivery, << >>, << >>,
                  out.trace \o FinalizeTrace(out.response_data))

\* Lines 95-102: after the dispatcher returned `out`; `retry` is what
\* handle_webhook_retry does when it is called.
AfterDispatch(msg, out, retry) ==
    IF out.raised # ""
    THEN Executed(out.raised, out.delivery, << >>, << >>, out.trace)
    ELSE IF NeedsRetry(out.response)
    THEN Executed("", out.delivery, retry.scheduled, << >>,
                  out.trace \o retry.trace \o FinalizeTrace(PyNone))
    ELSE Executed("", out.delivery, << >>, << >>,
                  out.trace \o FinalizeTrace(out.response_data))

\* Lines 93-94: the attempt is created and the dispatcher called with it.
TaskDispatched(msg, delivery, attempt, answer, out) ==
    [AfterDispatch(msg, out, handle_webhook_retry(msg)) EXCEPT
        !.sends = << SendRecord("handle_transaction_request_task", delivery, attempt,
                                answer, out, out.response_data) >>,
        !.trace = << <<"create_attempt", delivery.webhook>> >> \o @]

TaskDispatch(msg, delivery, attempt, answer) ==
    TaskDispatched(msg, delivery, attempt, answer,
                   p_send_webhook_request_sync(delivery, attempt, answer))

\* get_delivery_for_webhook: the persisted delivery with this id, if any.
DeliveryExists(rows, delivery_id) ==
    delivery_id \in DOMAIN rows /\ rows[delivery_id].exists

DeliveryOf(rows, delivery_id) ==
    [id |-> delivery_id, status |-> rows[delivery_id].status,
     event_type |-> rows[delivery_id].event_type,
     webhook |-> rows[delivery_id].webhook, payload |-> rows[delivery_id].payload]

\* Mutant: the delivery is dispatched without checking that it was found.
handle_transaction_request_task_unchecked(rows, existing, msg, answer) ==
    IF msg.request_event_id \notin existing
    THEN Executed("", NoDelivery, << >>, << >>,
                  << <<"logger.error", "request event">> >>)
    ELSE TaskDispatch(msg, DeliveryOf(rows, msg.delivery_id),
                      create_attempt(DeliveryOf(rows, msg.delivery_id), "task", TRUE),
                      answer)

handle_transaction_request_task(rows, existing, msg, answer) ==
    IF msg.request_event_id \notin existing
    THEN Executed("", NoDelivery, << >>, << >>,
                  << <<"logger.error", "request event">> >>)
    ELSE IF ~DeliveryExists(rows, msg.delivery_id)
    THEN Executed("", NoDelivery, << >>, << >>,
                  << <<"recalculate_refundable_for_checkout", msg.request_event_id>>,
                     <<"logger.error", "delivery">> >>)
    ELSE TaskDispatch(msg, DeliveryOf(rows, msg.delivery_id),
                      create_attempt(DeliveryOf(rows, msg.delivery_id), "task", TRUE),
                      answer)

(***************************************************************************)
(* The state after construction, and the record of a call.                 *)
(***************************************************************************)
RequestEvents == {"ev1"}

EmptyMap == [k \in {} |-> PyNone]

Last(op, key, hit, call) ==
    [op |-> op, key |-> key, hit |-> hit, result |-> call.result,
     raised |-> call.raised, sends |-> call.sends, trace |-> call.trace]

NoKey == <<"", <<"", "">>, "", "">>

\* The worker processes that call trigger_webhook_sync_if_not_cached side by
\* side, and the locals of a call: its position pc, cache_key, response_data,
\* whether cache.get hit, the dispatcher calls made, and `wrote`, the rank of
\* its cache.set among the writes so far (0 when it made none).
Procs == {"p1", "p2"}

NoProc == [pc |-> "idle", key |-> NoKey, response_data |-> PyNone, hit |-> FALSE,
           sends |-> << >>, wrote |-> 0]

NoProcs == [p \in Procs |-> NoProc]

Init ==
    /\ cache = EmptyMap
    /\ deliveries = << >>
    /\ payloads = {}
    /\ events = RequestEvents
    /\ tasks = {}
    /\ breaker_board \in BOOLEAN
    /\ taxes = NoTaxes
    /\ procs = NoProcs
    /\ last = Last("init", NoKey, FALSE, NoCall)

(***************************************************************************)
(* Inputs of the synchronous entry points. An input that the call cannot   *)
(* read is held at one value.                                              *)
(***************************************************************************)
SyncWebhooks == {"plain", "sub", "queue"}
Generated == {"", "gen-data"}
Pregenerated == {"", "pre-data"}

SyncEventTypes(webhook) ==
    IF WebhookOf[webhook].subscription_query
    THEN {"CHECKOUT_CALCULATE_TAXES", "UNSUBSCRIBABLE"}
    ELSE {"CHECKOUT_CALCULATE_TAXES"}

SyncInputs ==
    { i \in [webhook : SyncWebhooks, event_type : EventTypes, generated : Generated,
             pregenerated : Pregenerated, answer : Answers, open : BOOLEAN] :
        /\ i.event_type \in SyncEventTypes(i.webhook)
        /\ ~WebhookOf[i.webhook].subscription_query
               => i.generated = "" /\ i.pregenerated = ""
        /\ i.webhook = "queue" => i.answer.code = 0
        /\ i.open => i.answer.code = 0 }

\* A business workflow calls trigger_webhook_sync with inputs among `inputs`.
TriggerWebhookSyncWith(inputs) ==
    \E i \in inputs :
        /\ i.open => breaker_board
        /\ last' = Last("trigger_webhook_sync", NoKey, FALSE,
                        trigger_webhook_sync(breaker_board, i.open, i.event_type,
                                             "static-payload", i.webhook, i.generated,
                                             i.pregenerated, i.answer))
        /\ UNCHANGED <<procs, cache, deliveries, payloads, events, tasks, breaker_board, taxes>>

TriggerWebhookSync == TriggerWebhookSyncWith(SyncInputs)

CachedCall(r) ==
    /\ cache' = r.cache
    /\ last' = Last("trigger_webhook_sync_if_not_cached", r.key, r.hit, r.call)

\* A business workflow calls trigger_webhook_sync_if_not_cached.
TriggerWebhookSyncIfNotCached ==
    \E i \in SyncInputs, cache_data \in CacheData :
        /\ i.open => breaker_board
        /\ CachedCall(trigger_webhook_sync_if_not_cached(
                          cache, breaker_board, i.open, i.event_type, "static-payload",
                          i.webhook, cache_data, i.generated, i.pregenerated, i.answer))
        /\ UNCHANGED <<procs, deliveries, payloads, events, tasks, breaker_board, taxes>>

\* The cache store drops an entry whose timeout has elapsed.
CacheExpire ==
    \E key \in DOMAIN cache :
        /\ cache' = [k \in DOMAIN cache \ {key} |-> cache[k]]
        /\ last' = Last("cache_expire", key, FALSE, NoCall)
        /\ UNCHANGED <<procs, deliveries, payloads, events, tasks, breaker_board, taxes>>

NextCache == TriggerWebhookSync \/ TriggerWebhookSyncIfNotCached \/ CacheExpire

SpecCache == Init /\ [][NextCache]_vars

(***************************************************************************)
(* The fallback loop: the call's arguments are drawn when it begins, the   *)
(* subscriber's answer when it is sent to.                                 *)
(***************************************************************************)
Registries ==
    { r \in UNION { [1..n -> WebhookNames] : n \in 0..MaxRegistry } :
        \A a, b \in DOMAIN r : r[a] = r[b] => a = b }

ExpectedLines == {2, 3}

TaxAnswers ==
    { a \in Answers : a.code \in {200, 503, 0} /\ a.content # "null" }

InitTaxes ==
    /\ procs = NoProcs
    /\ cache = EmptyMap
    /\ deliveries = << >>
    /\ payloads = {}
    /\ events = RequestEvents
    /\ tasks = {}
    /\ breaker_board \in BOOLEAN
    /\ last = Last("init", NoKey, FALSE, NoCall)
    /\ \E event_type \in SyncEventTypes("sub"), webhooks \in Registries,
          expected_lines_count \in ExpectedLines, generated \in Generated,
          pregenerated \in Pregenerated :
           taxes = TaxesCalled(event_type, webhooks, expected_lines_count,
                               generated, pregenerated)

\* One pass of the loop's body.
TaxesIterate ==
    /\ taxes.pc = "loop"
    /\ taxes.idx <= Len(taxes.webhooks)
    /\ \E answer \in TaxAnswers :
           taxes' = TaxesBody(taxes, taxes.webhooks[taxes.idx], answer)
    /\ UNCHANGED <<procs, cache, deliveries, payloads, events, tasks, breaker_board, last>>

\* Line 417: the webhooks are exhausted.
TaxesExhausted ==
    /\ taxes.pc = "loop"
    /\ taxes.idx > Len(taxes.webhooks)
    /\ taxes' = [taxes EXCEPT !.pc = "returned", !.result = PyNone]
    /\ UNCHANGED <<procs, cache, deliveries, payloads, events, tasks, breaker_board, last>>

NextTaxes == TaxesIterate \/ TaxesExhausted

SpecTaxes == InitTaxes /\ [][NextTaxes]_vars

(***************************************************************************)
(* One worker that serves either single-subscriber calls or one call of    *)
(* the fallback loop, with or without a configured circuit breaker.        *)
(***************************************************************************)
InitBreaker == Init \/ InitTaxes

ServeSync == taxes.pc = "idle" /\ NextCache

NextBreaker == ServeSync \/ TaxesIterate \/ TaxesExhausted

SpecBreaker == InitBreaker /\ [][NextBreaker]_vars

(***************************************************************************)
(* trigger_webhook_sync_if_not_cached (lines 190-231) one statement at a   *)
(* time, in several processes over one cache.                              *)
(***************************************************************************)
RaceAnswers == { a \in Answers : a.content # "null" /\ a.code \in {200, 404} }

\* Lines 209-213: the key is built and the cache read.
Looked(c, key) ==
    [NoProc EXCEPT !.pc = IF cache_get(c, key) # PyNone THEN "return" ELSE "miss",
                   !.key = key,
                   !.response_data = cache_get(c, key),
                   !.hit = cache_get(c, key) # PyNone]

\* Lines 214-224: trigger_webhook_sync returned `call`.
Sent(proc, call) ==
    [proc EXCEPT !.pc = "got", !.response_data = call.result, !.sends = call.sends]

\* The rank of the next cache.set.
NextWrite == 1 + Cardinality({ q \in Procs : procs[q].wrote > 0 })

\* Lines 225-230: the result is stored unless it is None.
Stored(proc, rank) ==
    [proc EXCEPT !.pc = "return",
                 !.wrote = IF proc.response_data # PyNone THEN rank ELSE 0]

CacheGet(p) ==
    /\ procs[p].pc = "idle"
    /\ \E cache_data \in CacheData :
           procs' = [procs EXCEPT ![p] = Looked(cache, KeyOf(cache_data, "plain",
                                                            "CHECKOUT_CALCULATE_TAXES"))]
    /\ UNCHANGED <<cache, deliveries, payloads, events, tasks, breaker_board, taxes, last>>

Dispatch(p) ==
    /\ procs[p].pc = "miss"
    /\ \E answer \in RaceAnswers :
           procs' = [procs EXCEPT ![p] =
                        Sent(@, trigger_webhook_sync(breaker_board, FALSE,
                                                     "CHECKOUT_CALCULATE_TAXES",
                                                     "static-payload", "plain", "", "",
                                                     answer))]
    /\ UNCHANGED <<cache, deliveries, payloads, events, tasks, breaker_board, taxes, last>>

CacheSet(p) ==
    /\ procs[p].pc = "got"
    /\ cache' = CacheAfterMiss(cache, procs[p].key, procs[p].response_data)
    /\ procs' = [procs EXCEPT ![p] = Stored(@, NextWrite)]
    /\ UNCHANGED <<deliveries, payloads, events, tasks, breaker_board, taxes, last>>

\* Line 231: the call returns response_data.
Return(p) ==
    /\ procs[p].pc = "return"
    /\ procs' = [procs EXCEPT ![p].pc = "done"]
    /\ last' = Last("trigger_webhook_sync_if_not_cached", procs[p].key, procs[p].hit,
                    Call("", procs[p].response_data, procs[p].sends, << >>))
    /\ UNCHANGED <<cache, deliveries, payloads, events, tasks, breaker_board, taxes>>

NextRace == \E p \in Procs : CacheGet(p) \/ Dispatch(p) \/ CacheSet(p) \/ Return(p)

SpecRace == Init /\ [][NextRace]_vars

(***************************************************************************)
(* The transaction-request path.                                           *)
(***************************************************************************)
Owners == {"", "app1", "app2", "app3", "app9"}
TxEventTypes == {"TRANSACTION_CHARGE_REQUESTED", "UNSUBSCRIBABLE"}
TxGenerated == {"", "gen-data", "PaymentError"}

Row(delivery) ==
    [status |-> delivery.status, event_type |-> delivery.event_type,
     webhook |-> delivery.webhook, payload |-> delivery.payload, exists |-> TRUE]

LastTx(op, owner, msg, r, sends) ==
    [op |-> op, key |-> NoKey, hit |-> FALSE, result |-> PyNone, raised |-> r.raised,
     sends |-> sends, trace |-> r.trace, owner |-> owner, msg |-> msg,
     delivery |-> r.delivery, scheduled |-> r.scheduled]

\* The faults of the database while it writes a row: "" is none.
DbFaults == {"", "EventPayload", "EventDelivery"}

\* Lines 292-301 and 474-480: the rows written, in program order, before the
\* write that fails (both of them when none fails).
WritesBefore(fault) ==
    CASE fault = "" -> <<"EventPayload", "EventDelivery">>
      [] fault = "EventPayload" -> << >>
      [] fault = "EventDelivery" -> <<"EventPayload">>

\* Mutant: every write is visible as soon as it is made.
autocommit(fault, writes) == writes

\* Lines 291 and 473, transaction.atomic(): the writes of the block become
\* visible together when it ends, and none of them when a write raised.
transaction_atomic(fault, writes) == IF fault = "" THEN writes ELSE << >>

\* The rows a call makes visible, r being what it does when no write fails.
Committed(r, fault) ==
    IF r.delivery = NoDelivery THEN << >>
    ELSE transaction_atomic(fault, WritesBefore(fault))

\* A failed write raises out of the block and out of the call: line 481 is
\* not reached.
Persisting(r, fault) ==
    IF r.delivery = NoDelivery \/ fault = "" THEN r
    ELSE Requested("DatabaseError", NoDelivery, << >>,
                   SubSeq(r.trace, 1, Len(r.trace) - 1)
                       \o << <<"save", fault>>, <<"raise", "DatabaseError">> >>)

InSeq(x, seq) == \E n \in 1..Len(seq) : seq[n] = x

Requesting(owner, request_event_id, r, committed) ==
    /\ deliveries' = IF InSeq("EventDelivery", committed)
                     THEN Append(deliveries, Row(r.delivery)) ELSE deliveries
    /\ payloads' = IF InSeq("EventPayload", committed)
                   THEN payloads \cup {Len(deliveries) + 1} ELSE payloads
    /\ tasks' = tasks \cup { r.scheduled[n] : n \in 1..Len(r.scheduled) }
    /\ last' = LastTx("trigger_transaction_request", owner,
                      TaskMessage(0, request_event_id, 0), r, << >>)

Requests(owner, request_event_id, r, fault) ==
    /\ r.delivery # NoDelivery => Len(deliveries) < MaxDeliveries
    /\ r.delivery = NoDelivery => fault = ""
    /\ Requesting(owner, request_event_id, Persisting(r, fault), Committed(r, fault))

\* A business workflow calls trigger_transaction_request.
TriggerTransactionRequest ==
    \E owner \in Owners, request_event_id \in events, event_type \in TxEventTypes,
       generated \in TxGenerated, fault \in DbFaults :
        /\ (FirstWebhookOf(owner) = "" \/ ~WebhookOf[FirstWebhookOf(owner)].subscription_query)
               => generated = "" /\ event_type = "TRANSACTION_CHARGE_REQUESTED"
        /\ Requests(owner, request_event_id,
                    trigger_transaction_request(owner, request_event_id, event_type,
                                                generated, Len(deliveries) + 1),
                    fault)
        /\ UNCHANGED <<procs, cache, events, breaker_board, taxes>>

Executing(msg, r) ==
    /\ deliveries' = IF r.delivery = NoDelivery THEN deliveries
                     ELSE [deliveries EXCEPT ![r.delivery.id].status = r.delivery.status]
    /\ tasks' = (tasks \ {msg}) \cup { r.scheduled[n] : n \in 1..Len(r.scheduled) }
    /\ last' = LastTx("handle_transaction_request_task", "", msg, r, r.sends)

\* A worker executes a queued handle_transaction_request_task.
HandleTransactionRequestTask ==
    \E msg \in tasks, answer \in Answers :
        /\ Executing(msg, handle_transaction_request_task(deliveries, events, msg, answer))
        /\ UNCHANGED <<procs, cache, payloads, events, breaker_board, taxes>>

\* The rest of the system deletes a request event or a delivery.
DeleteRequestEvent ==
    \E request_event_id \in events :
        /\ events' = events \ {request_event_id}
        /\ last' = Last("delete_request_event", NoKey, FALSE, NoCall)
        /\ UNCHANGED <<procs, cache, deliveries, payloads, tasks, breaker_board, taxes>>

DeleteDelivery ==
    \E id \in DOMAIN deliveries :
        /\ deliveries[id].exists
        /\ deliveries' = [deliveries EXCEPT ![id].exists = FALSE]
        /\ last' = Last("delete_delivery", NoKey, FALSE, NoCall)
        /\ UNCHANGED <<procs, cache, payloads, events, tasks, breaker_board, taxes>>

InitTx ==
    /\ cache = EmptyMap
    /\ deliveries = << >>
    /\ payloads = {}
    /\ events = RequestEvents
    /\ tasks = {}
    /\ breaker_board = FALSE
    /\ taxes = NoTaxes
    /\ procs = NoProcs
    /\ last = Last("init", NoKey, FALSE, NoCall)

\* The synchronous calls made beside the transaction path.
TxSyncInputs ==
    { i \in SyncInputs : i.webhook \in {"plain", "queue"} /\ ~i.open
                           /\ i.answer.content \in {"{\"ok\":true}", "ConnectionError"} }

TriggerWebhookSyncBeside == TriggerWebhookSyncWith(TxSyncInputs)

NextTx ==
    \/ TriggerTransactionRequest
    \/ HandleTransactionRequestTask
    \/ DeleteRequestEvent
    \/ DeleteDelivery
    \/ TriggerWebhookSyncBeside

SpecTx == InitTx /\ [][NextTx]_vars

(***************************************************************************)
(* Properties.                                                             *)
(***************************************************************************)
Sends == { last.sends[n] : n \in 1..Len(last.sends) }

HttpScheme(webhook) ==
    WebhookOf[webhook].target_url[1] \in {"http", "https", "HTTP", "HTTPS"}

Is2xx(answer) == answer.code >= 200 /\ answer.code <= 299

Count(trace, name) == Cardinality({ n \in 1..Len(trace) : trace[n][1] = name })

Index(trace, name) == CHOOSE n \in 1..Len(trace) : trace[n][1] = name

\* C1: send_webhook_request_sync hands its caller the parsed JSON body only
\* when the dispatch ended SUCCESS and None otherwise: a 2xx answer with a
\* JSON body gives that body and a SUCCESS delivery; a 2xx answer whose body
\* is not JSON gives None and a FAILED delivery; a non-2xx answer, a
\* connection error or a timeout gives None and a FAILED delivery, and no
\* exception reaches the caller.
C1_SendSyncContract ==
    \A s \in Sends :
        (s.via = "send_webhook_request_sync" /\ HttpScheme(s.before.webhook)) =>
            /\ s.out.raised = ""
            /\ s.returned # PyNone => s.out.delivery.status = SUCCESS
            /\ (Is2xx(s.answer) /\ s.answer.content = "{\"ok\":true}") =>
                   s.returned = PyObject(0) /\ s.out.delivery.status = SUCCESS
            /\ (Is2xx(s.answer) /\ s.answer.content = "{\"lines\":[1,2]}") =>
                   s.returned = PyObject(2) /\ s.out.delivery.status = SUCCESS
            /\ (Is2xx(s.answer) /\ s.answer.content = "not-json") =>
                   s.returned = PyNone /\ s.out.delivery.status = FAILED
            /\ ~Is2xx(s.answer) =>
                   s.returned = PyNone /\ s.out.delivery.status = FAILED

\* C1 witness: a 404 answer with a JSON body was dispatched; the dispatcher
\* parsed the body and the caller got None.
C1_Witness ==
    \E s \in Sends :
        /\ s.via = "send_webhook_request_sync"
        /\ s.answer.code = 404
        /\ s.out.response_data = PyObject(0)
        /\ s.returned = PyNone
        /\ last.result = PyNone

\* C3: when the target URL's scheme is neither http nor https the dispatcher
\* raises to its caller before any HTTP call, and the delivery is FAILED when
\* the error is raised.
C3_UnknownSchemeRaises ==
    \A s \in Sends :
        ~HttpScheme(s.before.webhook) =>
            /\ s.out.raised = "ValueError"
            /\ last.raised = "ValueError"
            /\ Count(s.out.trace, "send_webhook_using_http") = 0
            /\ s.out.delivery.status = FAILED
            /\ Count(s.out.trace, "delivery_update") = 1
            /\ Index(s.out.trace, "delivery_update") < Index(s.out.trace, "raise")

\* C3 witness: a delivery to the awssqs webhook was dispatched.
C3_Witness ==
    \E s \in Sends : s.before.webhook = "queue" /\ s.before.status = PENDING

IsCachedCall(l) == l.op = "trigger_webhook_sync_if_not_cached"

\* C4 as claimed: two calls of trigger_webhook_sync_if_not_cached in a row with
\* the same key, the first on a cold cache, make one dispatch between them and
\* the second returns the first's body from the cache.
C4_AsClaimed ==
    [][(IsCachedCall(last) /\ ~last.hit /\ IsCachedCall(last') /\ last'.key = last.key)
           => /\ Len(last.sends) + Len(last'.sends) = 1
              /\ last'.hit
              /\ last'.result = last.result]_vars

\* C4 amended: when the first of two calls in a row with the same key missed
\* and obtained a non-None body, it made exactly one dispatch, and the second
\* returns that body from the cache with no dispatch, no network call and no
\* delivery; and any call whose key is live returns the cached body so.
C4_CacheIdempotence ==
    [][/\ (IsCachedCall(last) /\ ~last.hit /\ last.raised = "" /\ last.result # PyNone
               /\ IsCachedCall(last') /\ last'.key = last.key)
           => /\ Len(last.sends) = 1
              /\ last'.hit
              /\ last'.result = last.result
       /\ (IsCachedCall(last') /\ last'.key \in DOMAIN cache)
           => /\ last'.hit
              /\ last'.result = cache[last'.key]
              /\ last'.raised = ""
              /\ last'.sends = << >>
              /\ last'.trace = << >>
              /\ cache' = cache
              /\ deliveries' = deliveries]_vars

\* C4 witness: a call has just been answered from the cache.
C4_Witness ==
    /\ IsCachedCall(last)
    /\ last.hit
    /\ last.result = PyObject(2)
    /\ last.sends = << >>

IsHttpCall(e) == e[1] = "send_webhook_using_http"

\* The webhooks the call has made an HTTP call to, in the order of the calls.
HttpCalls(trace) ==
    [n \in 1..Len(SelectSeq(trace, IsHttpCall)) |-> SelectSeq(trace, IsHttpCall)[n][2]]

\* The webhooks the call has dispatched to, in the order of the dispatches.
SentTo(t) == [n \in 1..Len(t.sends) |-> t.sends[n].before.webhook]

\* The answer is tax data with the expected number of lines.
ValidTaxAnswer(answer, expected_lines_count) ==
    /\ answer.code = 200
    /\ answer.content = "{\"lines\":[1,2]}"
    /\ expected_lines_count = 2

\* C6: trigger_taxes_all_webhooks_sync dispatches to the registered webhooks
\* one at a time in registry order; at the first webhook whose response is
\* valid tax data it returns the parsed result at once: no later webhook is
\* dispatched to, and every webhook before it was dispatched to exactly once.
C6_FallbackShortCircuit ==
    /\ Len(taxes.sends) <= Len(taxes.webhooks)
    /\ SentTo(taxes) = SubSeq(taxes.webhooks, 1, Len(taxes.sends))
    /\ HttpCalls(taxes.trace) = SelectSeq(SentTo(taxes), HttpScheme)
    /\ \A n \in 1..Len(taxes.sends) :
           ( /\ HttpScheme(taxes.sends[n].before.webhook)
             /\ ValidTaxAnswer(taxes.sends[n].answer, taxes.expected_lines_count) ) =>
               /\ n = Len(taxes.sends)
               /\ taxes.pc = "returned"
               /\ taxes.result = [kind |-> "TaxData", lines |-> 2]
               /\ ~ENABLED (TaxesIterate \/ TaxesExhausted)
    /\ (taxes.pc = "returned" /\ taxes.result # PyNone) =>
           /\ Len(taxes.sends) >= 1
           /\ ValidTaxAnswer(taxes.sends[Len(taxes.sends)].answer,
                             taxes.expected_lines_count)

\* C6 witness: the third webhook's response was the first valid one.
C6_Witness ==
    /\ taxes.pc = "returned"
    /\ taxes.result = [kind |-> "TaxData", lines |-> 2]
    /\ Len(taxes.sends) = 3

\* A request can be made to the webhook: its URL is http(s) and, when it has a
\* subscription query, a payload is produced for it.
Answerable(t, webhook) ==
    /\ HttpScheme(webhook)
    /\ WebhookOf[webhook].subscription_query =>
           /\ t.event_type \in WEBHOOK_TYPES_MAP
           /\ t.generated # "" \/ t.pregenerated # ""

\* C7: when every registered webhook answers with an invalid body (a body
\* that is not the expected tax data, or a failed response), the call returns
\* None and each webhook was dispatched to exactly once, in registry order.
C7_FallbackExhaustion ==
    ( /\ taxes.pc \in {"returned", "raised"}
      /\ \A n \in 1..Len(taxes.webhooks) : Answerable(taxes, taxes.webhooks[n])
      /\ \A s \in { taxes.sends[n] : n \in 1..Len(taxes.sends) } :
             ~ValidTaxAnswer(s.answer, taxes.expected_lines_count) )
    => /\ taxes.pc = "returned"
       /\ taxes.result = PyNone
       /\ SentTo(taxes) = taxes.webhooks
       /\ HttpCalls(taxes.trace) = taxes.webhooks

\* C7 witness: three webhooks, one with a subscription query, all answered
\* with invalid bodies, and the call returned None.
C7_Witness ==
    /\ taxes.pc = "returned"
    /\ taxes.result = PyNone
    /\ Len(taxes.webhooks) = 3
    /\ SentTo(taxes) = taxes.webhooks
    /\ \E n \in 1..3 : taxes.webhooks[n] = "sub"


(***************************************************************************)
(* The dispatcher's bookkeeping and the transaction-request path.          *)
(***************************************************************************)
Finalizer == "create_transaction_event_from_request_and_webhook_response"

AttemptsOf(s) == Count(s.out.trace, "create_attempt") + (IF s.supplied THEN 1 ELSE 0)

\* C2 as claimed: every dispatcher call takes its delivery from PENDING to
\* SUCCESS or FAILED in one transition and yields exactly one attempt, the one
\* supplied by the caller or one the call creates.
C2_AsClaimed ==
    \A s \in Sends :
        /\ s.before.status = PENDING
        /\ s.out.delivery.status \in {SUCCESS, FAILED}
        /\ Count(s.out.trace, "delivery_update") = 1
        /\ AttemptsOf(s) = 1

\* C2: a dispatcher call on a PENDING delivery makes exactly one status
\* transition to SUCCESS or FAILED.  To an http(s) target it yields exactly
\* one attempt (the caller's, or one it creates when none is supplied), which
\* it updates once to the delivery's final status.  To any other scheme it
\* creates no attempt and updates none: the delivery becomes FAILED and a
\* supplied attempt stays as the caller made it.
C2_DispatchBookkeeping ==
    \A s \in Sends :
        s.before.status = PENDING =>
            /\ s.out.delivery.status \in {SUCCESS, FAILED}
            /\ Count(s.out.trace, "delivery_update") = 1
            /\ HttpScheme(s.before.webhook) =>
                   /\ AttemptsOf(s) = 1
                   /\ Count(s.out.trace, "attempt_update") = 1
                   /\ s.out.attempt.status = s.out.delivery.status
            /\ ~HttpScheme(s.before.webhook) =>
                   /\ s.out.delivery.status = FAILED
                   /\ Count(s.out.trace, "create_attempt") = 0
                   /\ Count(s.out.trace, "attempt_update") = 0
                   /\ s.out.attempt.status = (IF s.supplied THEN PENDING ELSE "no-attempt")

\* C2 witness: the task dispatched a PENDING delivery with the attempt it
\* created and the subscriber answered 200 with a JSON body.
C2_Witness ==
    \E s \in Sends :
        /\ s.via = "handle_transaction_request_task"
        /\ s.supplied
        /\ s.before.status = PENDING
        /\ Is2xx(s.answer)
        /\ s.out.delivery.status = SUCCESS
        /\ s.out.attempt.status = SUCCESS

NoWebhookFor(owner) ==
    \A n \in 1..Len(TxRegistry) : WebhookOf[TxRegistry[n]].app_id # owner

\* C8: trigger_transaction_request for a transaction with no owning app, or
\* whose app has no webhook registered for the event, creates one failed
\* transaction event, recomputes the refundable amount once, and returns
\* having created no delivery, enqueued no task and made no network call.
C8_NoReceiver ==
    [][ (/\ last'.op = "trigger_transaction_request"
         /\ (last'.owner = "" \/ NoWebhookFor(last'.owner)))
        => /\ last'.raised = ""
           /\ Count(last'.trace, "create_failed_transaction_event") = 1
           /\ Count(last'.trace, "recalculate_refundable_for_checkout") = 1
           /\ deliveries' = deliveries
           /\ payloads' = payloads
           /\ tasks' = tasks
           /\ last'.delivery = NoDelivery
           /\ last'.scheduled = << >>
           /\ last'.sends = << >>
           /\ Count(last'.trace, "handle_transaction_request_task.delay") = 0
           /\ Count(last'.trace, "send_webhook_using_http") = 0 ]_vars

\* C8 witness: the request was made for a transaction of an app that has no
\* webhook, and the failed event was created.
C8_Witness ==
    /\ last.op = "trigger_transaction_request"
    /\ last.owner = "app9"
    /\ Count(last.trace, "create_failed_transaction_event") = 1

\* The dispatch of a task execution returned a response with a 5xx code.
Got5xx(s) == s.out.raised = "" /\ s.out.response.response_status_code >= 500

C10_FinalizeOnce ==
    (last.op = "handle_transaction_request_task") =>
        \A s \in Sends :
            (s.out.raised = "" /\ ~(s.out.response.response_status_code >= 500)) =>
                /\ Count(last.trace, Finalizer) = 1
                /\ last.trace[Index(last.trace, Finalizer)][2] = s.out.response_data.kind
                /\ Count(last.trace, "handle_webhook_retry") = 0
                /\ last.scheduled = << >>
                /\ \A m \in tasks : m # [last.msg EXCEPT !.retries = last.msg.retries + 1]

\* C10 witness: the subscriber answered 404 and the finalizer was called.
C10_Witness ==
    /\ last.op = "handle_transaction_request_task"
    /\ \E s \in Sends : s.out.raised = "" /\ s.answer.code = 404
    /\ Count(last.trace, Finalizer) = 1
    /\ last.scheduled = << >>

(***************************************************************************)
(* The status of a persisted delivery over time.                           *)
(***************************************************************************)
\* The persisted deliveries whose status the step changes.
Redriven == { id \in DOMAIN deliveries : deliveries'[id].status # deliveries[id].status }

\* C11 as claimed: a persisted delivery that has reached SUCCESS or FAILED
\* never changes status again.
C11_AsClaimed ==
    [][ \A id \in DOMAIN deliveries :
            deliveries[id].status \in {SUCCESS, FAILED}
                => deliveries'[id].status = deliveries[id].status ]_vars

\* C11: a persisted delivery never returns to PENDING and a SUCCESS delivery
\* never changes status again.  A task retry creates no delivery: it
\* dispatches the delivery of the same id once more, and the status of a
\* FAILED delivery changes only in such a retry (retries >= 1), to SUCCESS.
C11_TerminalStatus ==
    [][ /\ \A id \in DOMAIN deliveries :
               /\ deliveries[id].status # PENDING => deliveries'[id].status # PENDING
               /\ deliveries[id].status = SUCCESS => deliveries'[id].status = SUCCESS
               /\ (deliveries[id].status = FAILED /\ id \in Redriven) =>
                      /\ last'.op = "handle_transaction_request_task"
                      /\ last'.msg.delivery_id = id
                      /\ last'.msg.retries >= 1
                      /\ deliveries'[id].status = SUCCESS
        /\ last'.op = "handle_transaction_request_task" =>
               /\ Len(deliveries') = Len(deliveries)
               /\ \A s \in { last'.sends[n] : n \in 1..Len(last'.sends) } :
                      s.before.id = last'.msg.delivery_id ]_vars

\* C11 witness: a retry dispatched a delivery that was FAILED and left it
\* SUCCESS.
C11_Witness ==
    /\ last.op = "handle_transaction_request_task"
    /\ last.msg.retries >= 1
    /\ \E s \in Sends : /\ s.before.status = FAILED
                        /\ s.out.delivery.status = SUCCESS
                        /\ deliveries[s.before.id].status = SUCCESS

(***************************************************************************)
(* The persisted pair of a payload and its delivery.                       *)
(***************************************************************************)
\* C12: in every state each persisted EventDelivery has its persisted
\* EventPayload and each persisted EventPayload its EventDelivery; a call of
\* trigger_transaction_request in which one of the two writes failed raised,
\* left neither row visible and enqueued no task.
C12_AtomicPair ==
    /\ payloads = DOMAIN deliveries
    /\ (last.op = "trigger_transaction_request" /\ last.raised = "DatabaseError") =>
           /\ last.delivery = NoDelivery
           /\ last.scheduled = << >>
           /\ \A m \in tasks : m.delivery_id \in DOMAIN deliveries

\* C12 witness: the write of the EventDelivery failed after the EventPayload
\* was written, and the store holds neither.
C12_Witness ==
    /\ last.op = "trigger_transaction_request"
    /\ last.raised = "DatabaseError"
    /\ InSeq(<<"save", "EventDelivery">>, last.trace)
    /\ payloads = {}
    /\ deliveries = << >>

(***************************************************************************)
(* The parsed body the dispatcher returns.                                 *)
(***************************************************************************)
\* C13 as claimed: the parsed body the dispatcher returns is None unless the
\* returned response's status is SUCCESS.
C13_AsClaimed ==
    \A s \in Sends :
        (s.out.raised = "" /\ s.out.response.status # SUCCESS) => s.out.response_data = PyNone

\* C13: the dispatcher returns the decoded body of whatever response it got,
\* None only when the content does not decode or decodes to null: a non-2xx
\* response with a JSON body gives status FAILED and that body.
\* send_webhook_request_sync hands its caller the body only on SUCCESS;
\* handle_transaction_request_task hands the finalizer the body of any
\* response without a 5xx code, a FAILED one included, and None after a 5xx.
C13_ParsedBody ==
    \A s \in Sends :
        s.out.raised = "" =>
            /\ s.answer.content = "{\"ok\":true}" => s.out.response_data = PyObject(0)
            /\ s.answer.content = "{\"lines\":[1,2]}" => s.out.response_data = PyObject(2)
            /\ s.answer.content \in {"null", "not-json", "ConnectionError"}
                   => s.out.response_data = PyNone
            /\ s.out.response.status = (IF Is2xx(s.answer) /\ s.answer.content # "not-json"
                                        THEN SUCCESS ELSE FAILED)
            /\ s.via = "send_webhook_request_sync" =>
                   s.returned = (IF s.out.response.status = SUCCESS
                                 THEN s.out.response_data ELSE PyNone)
            /\ s.via = "handle_transaction_request_task" =>
                   last.trace[Index(last.trace, Finalizer)][2]
                       = (IF Got5xx(s) THEN "None" ELSE s.out.response_data.kind)

\* C13 witness: the task's dispatch was answered 404 with a JSON body; the
\* delivery is FAILED and the finalizer was handed the body.
C13_Witness ==
    /\ last.op = "handle_transaction_request_task"
    /\ \E s \in Sends : /\ s.answer.code = 404
                        /\ s.out.response.status = FAILED
                        /\ s.out.delivery.status = FAILED
                        /\ s.out.response_data = PyObject(0)
    /\ InSeq(<<Finalizer, "object">>, last.trace)

(***************************************************************************)
(* The order of the dispatcher's two updates.                              *)
(***************************************************************************)
\* C14 as claimed: on every path of the dispatcher that writes the
\* delivery's status, an attempt_update comes before the delivery_update.
C14_AsClaimed ==
    \A s \in Sends :
        \A n \in 1..Len(s.out.trace) :
            s.out.trace[n][1] = "delivery_update" =>
                \E m \in 1..(n - 1) : s.out.trace[m][1] = "attempt_update"

\* C14: when the target URL is http(s) the dispatcher updates the attempt
\* once and then the delivery once, both with the status of the response it
\* returns.  When the scheme is anything else it writes FAILED to the
\* delivery without updating any attempt, also when the caller supplied one.
C14_UpdateOrder ==
    \A s \in Sends :
        /\ HttpScheme(s.before.webhook) =>
               /\ Count(s.out.trace, "attempt_update") = 1
               /\ Count(s.out.trace, "delivery_update") = 1
               /\ Index(s.out.trace, "attempt_update") < Index(s.out.trace, "delivery_update")
               /\ s.out.trace[Index(s.out.trace, "attempt_update")][2] = s.out.response.status
               /\ s.out.trace[Index(s.out.trace, "delivery_update")][2] = s.out.response.status
        /\ ~HttpScheme(s.before.webhook) =>
               /\ Count(s.out.trace, "attempt_update") = 0
               /\ Count(s.out.trace, "delivery_update") = 1
               /\ s.out.trace[Index(s.out.trace, "delivery_update")][2] = FAILED
               /\ s.supplied => s.out.attempt.status = PENDING

\* C14 witness: the task dispatched to the awssqs webhook with the attempt
\* it created; the delivery is FAILED and the attempt was never updated.
C14_Witness ==
    \E s \in Sends :
        /\ s.via = "handle_transaction_request_task"
        /\ ~HttpScheme(s.before.webhook)
        /\ s.supplied
        /\ s.out.delivery.status = FAILED
        /\ s.out.attempt.status = PENDING
        /\ Count(s.out.trace, "attempt_update") = 0

(***************************************************************************)
(* The fallback loop when a subscriber yields nothing.                     *)
(***************************************************************************)
\* C15 as claimed: whenever trigger_taxes_all_webhooks_sync returns None no
\* webhook after the one that failed is skipped: the loop has reached the
\* last registered webhook or passed it.
C15_AsClaimed ==
    (taxes.pc = "returned" /\ taxes.result = PyNone) => taxes.idx >= Len(taxes.webhooks)

(***************************************************************************)
(* What the circuit breaker gates.                                         *)
(***************************************************************************)
\* Every HTTP call of the trace comes after a pass through the breaker.
Gated(trace) ==
    \A n \in 1..Len(trace) :
        trace[n][1] = "send_webhook_using_http" =>
            \E m \in 1..(n - 1) : trace[m][1] = "breaker_board"

\* C16 as claimed: with a breaker configured, no HTTP call is made from
\* trigger_webhook_sync_if_not_cached or from trigger_taxes_all_webhooks_sync
\* without passing through the breaker first.
C16_AsClaimed == breaker_board => Gated(last.trace) /\ Gated(taxes.trace)

\* C16: with a breaker configured, every call of trigger_webhook_sync, made
\* directly or by trigger_webhook_sync_if_not_cached on a miss, enters through
\* the breaker, and with the breaker open it makes no dispatch and returns
\* None; with no breaker configured the call runs undecorated.
\* trigger_taxes_all_webhooks_sync never goes through the breaker, configured
\* or not: its loop calls send_webhook_request_sync itself.
C16_BreakerGate ==
    /\ (last.op \in {"trigger_webhook_sync", "trigger_webhook_sync_if_not_cached"}
            /\ ~last.hit) =>
           /\ breaker_board =>
                  /\ Len(last.trace) >= 1
                  /\ last.trace[1][1] = "breaker_board"
                  /\ Gated(last.trace)
                  /\ last.trace[1][2] = "open" =>
                         /\ last.sends = << >>
                         /\ last.result = PyNone
                         /\ Len(last.trace) = 1
           /\ ~breaker_board => Count(last.trace, "breaker_board") = 0
    /\ last.hit => last.trace = << >>
    /\ Count(taxes.trace, "breaker_board") = 0
    /\ Len(taxes.sends) = Count(taxes.trace, "send_webhook_using_http")
                              + Count(taxes.trace, "raise")

\* C16 witness: a breaker is configured and the fallback loop has made an
\* HTTP call that went through no breaker.
C16_Witness ==
    /\ breaker_board
    /\ Count(taxes.trace, "send_webhook_using_http") >= 1
    /\ Count(taxes.trace, "breaker_board") = 0

(***************************************************************************)
(* Concurrent misses on one cache key.                                     *)
(***************************************************************************)
\* The processes that stored a body under key.
Writers(key) == { p \in Procs : procs[p].key = key /\ procs[p].wrote > 0 }

\* The process whose cache.set under key came last.
LastWriter(key) ==
    CHOOSE p \in Writers(key) : \A q \in Writers(key) : procs[q].wrote <= procs[p].wrote

\* C17: nothing serialises the calls: a process that missed dispatches
\* whatever the others are doing, exactly once, and returns the body of its
\* own dispatch; a cache entry holds the body of the process that wrote it
\* last.
C17_ConcurrentMisses ==
    /\ \A p \in Procs :
           (procs[p].pc \in {"got", "return", "done"} /\ ~procs[p].hit) =>
               /\ Len(procs[p].sends) = 1
               /\ procs[p].response_data = procs[p].sends[1].returned

    /\ \A p \in Procs : procs[p].pc = "miss" => ENABLED Dispatch(p)
    /\ \A key \in DOMAIN cache :
           /\ Writers(key) # {}
           /\ cache[key] = procs[LastWriter(key)].response_data
    /\ (last.op = "trigger_webhook_sync_if_not_cached" /\ ~last.hit) =>
           /\ Len(last.sends) = 1
           /\ last.result = last.sends[1].returned

\* C17 witness: both processes missed on the same key and each made its own
\* dispatch; they got different bodies, each keeps its own, and the cache
\* holds the body of the second writer.
C17_Witness ==
    /\ \A p \in Procs : /\ procs[p].pc = "done"
                        /\ ~procs[p].hit
                        /\ Len(procs[p].sends) = 1
                        /\ procs[p].key = procs["p1"].key
    /\ procs["p1"].response_data = PyObject(0)
    /\ procs["p2"].response_data = PyObject(2)
    /\ procs["p1"].wrote = 2
    /\ procs["p2"].wrote = 1
    /\ cache[procs["p1"].key] = PyObject(0)

(***************************************************************************)
(* The chain of executions of the task for one delivery.                   *)
(***************************************************************************)
\* The queued messages for the delivery of message m.
QueuedFor(queue, m) == { q \in queue : q.delivery_id = m.delivery_id }

\* What is left of the chain of delivery id: the executions that can still
\* follow, counting the queued one; 0 when nothing is queued for it.
ChainRank(queue, id) ==
    IF \A m \in queue : m.delivery_id # id THEN 0
    ELSE max_retries + 1 - (CHOOSE m \in queue : m.delivery_id = id).retries

\* One step of a task chain: the queue holds at most one message per
\* delivery, with at most max_retries retries; an execution consumes its
\* message, dispatches at most once, and leaves for its delivery at most the
\* one message it scheduled, which counts one retry more; the execution that
\* is retry number max_retries schedules nothing; the rank of the chain goes
\* down with every execution and is changed by nothing else.
ChainStep ==
    /\ \A m \in tasks' : /\ m.retries \in 0..max_retries
                         /\ QueuedFor(tasks', m) = {m}
    /\ last'.op = "handle_transaction_request_task" =>
           /\ last'.msg \in tasks
           /\ last'.msg \notin tasks'
           /\ Len(last'.sends) <= 1
           /\ Len(last'.scheduled) <= 1
           /\ QueuedFor(tasks', last'.msg)
                  = { last'.scheduled[n] : n \in 1..Len(last'.scheduled) }
           /\ \A m \in QueuedFor(tasks', last'.msg) : m.retries = last'.msg.retries + 1
           /\ last'.msg.retries = max_retries => QueuedFor(tasks', last'.msg) = {}
           /\ ChainRank(tasks', last'.msg.delivery_id) < ChainRank(tasks, last'.msg.delivery_id)
           /\ \A id \in DOMAIN deliveries :
                  id # last'.msg.delivery_id => ChainRank(tasks', id) = ChainRank(tasks, id)
    /\ last'.op # "handle_transaction_request_task" =>
           \A id \in DOMAIN deliveries : ChainRank(tasks', id) = ChainRank(tasks, id)

\* C18: the executions for one delivery run one after another, each retry
\* counting one more than the execution that scheduled it, up to max_retries
\* = 5 retries after the first execution (6 dispatches at most), and after
\* the last one nothing is scheduled: every execution lowers the rank of its
\* chain, which starts at max_retries + 1 and which no other step raises.
C18_TaskChainTerminates == [][ChainStep]_vars

\* C18 witness: the fifth retry got a 5xx answer; no retry is scheduled and
\* the queue is empty.
C18_Witness ==
    /\ last.op = "handle_transaction_request_task"
    /\ last.msg.retries = max_retries
    /\ \E s \in Sends : Got5xx(s)
    /\ last.scheduled = << >>
    /\ tasks = {}

(***************************************************************************)
(* The task when its request event or its delivery is gone.                *)
(***************************************************************************)
\* The execution recorded in last' found no request event.
EventGone == last'.msg.request_event_id \notin events

\* The execution recorded in last' found its request event and no delivery.
DeliveryGone == ~EventGone /\ ~DeliveryExists(deliveries, last'.msg.delivery_id)

\* C19: an execution of handle_transaction_request_task that finds no
\* request event only logs; one that finds the event and no delivery
\* recomputes the refundable amount once and logs; either returns having
\* created no attempt, made no network call, finalized no transaction event
\* and scheduled no retry, and changes no stored row.
C19_AbortWhenGone ==
    [][ (last'.op = "handle_transaction_request_task" /\ (EventGone \/ DeliveryGone)) =>
            /\ last'.raised = ""
            /\ EventGone => last'.trace = << <<"logger.error", "request event">> >>
            /\ DeliveryGone =>
                   /\ Count(last'.trace, "recalculate_refundable_for_checkout") = 1
                   /\ Count(last'.trace, "logger.error") = 1
                   /\ Len(last'.trace) = 2
            /\ Count(last'.trace, "create_attempt") = 0
            /\ Count(last'.trace, "send_webhook_using_http") = 0
            /\ Count(last'.trace, Finalizer) = 0
            /\ Count(last'.trace, "handle_webhook_retry") = 0
            /\ last'.sends = << >>
            /\ last'.scheduled = << >>
            /\ tasks' = tasks \ {last'.msg}
            /\ deliveries' = deliveries
            /\ payloads' = payloads
            /\ events' = events
            /\ cache' = cache ]_vars

\* C19 witness: the task ran for a delivery that had been deleted while its
\* request event existed, and recomputed the refundable amount.
C19_Witness ==
    /\ last.op = "handle_transaction_request_task"
    /\ last.msg.request_event_id \in events
    /\ ~DeliveryExists(deliveries, last.msg.delivery_id)
    /\ Count(last.trace, "recalculate_refundable_for_checkout") = 1
    /\ last.sends = << >>

(***************************************************************************)
(* The two outcomes of trigger_transaction_request.                        *)
(***************************************************************************)
\* (a) one failed transaction event, the refundable amount recomputed, and
\* nothing stored or enqueued.
FailedLocally ==
    /\ Count(last'.trace, "create_failed_transaction_event") = 1
    /\ Count(last'.trace, "recalculate_refundable_for_checkout") = 1
    /\ Count(last'.trace, "handle_transaction_request_task.delay") = 0
    /\ last'.delivery = NoDelivery
    /\ last'.scheduled = << >>
    /\ deliveries' = deliveries
    /\ payloads' = payloads
    /\ tasks' = tasks

\* (b) one PENDING delivery stored with its payload and the task enqueued
\* once for it, with no failed transaction event.
HandedToTask ==
    /\ Count(last'.trace, "create_failed_transaction_event") = 0
    /\ Count(last'.trace, "recalculate_refundable_for_checkout") = 0
    /\ Count(last'.trace, "handle_transaction_request_task.delay") = 1
    /\ Len(deliveries') = Len(deliveries) + 1
    /\ \A id \in DOMAIN deliveries : deliveries'[id] = deliveries[id]
    /\ deliveries'[Len(deliveries')].status = PENDING
    /\ deliveries'[Len(deliveries')].exists
    /\ payloads' = payloads \cup {Len(deliveries')}
    /\ last'.delivery.id = Len(deliveries')
    /\ last'.scheduled = << TaskMessage(Len(deliveries'), last'.msg.request_event_id, 0) >>
    /\ tasks' = tasks \cup {TaskMessage(Len(deliveries'), last'.msg.request_event_id, 0)}
    /\ TaskMessage(Len(deliveries'), last'.msg.request_event_id, 0) \notin tasks

\* The call got no payload from the subscription: the generator raised
\* PaymentError, or no delivery was built for the subscription webhook.
NoSubscriptionPayload ==
    \/ InSeq(<<"logger.warning", "PaymentError">>, last'.trace)
    \/ /\ FirstWebhookOf(last'.owner) # ""
       /\ WebhookOf[FirstWebhookOf(last'.owner)].subscription_query
       /\ Count(last'.trace, "EventDelivery") = 0

\* C20: a call of trigger_transaction_request that returns normally either
\* (a) creates one failed transaction event and recomputes the refundable
\* amount, handing no delivery to the task, or (b) stores one PENDING
\* delivery and enqueues the task once for it, creating no failed event;
\* never both, never neither; a PaymentError or an empty payload from the
\* subscription gives (a).
C20_OneOfTwo ==
    [][ (last'.op = "trigger_transaction_request" /\ last'.raised = "") =>
            /\ FailedLocally \/ HandedToTask
            /\ ~(FailedLocally /\ HandedToTask)
            /\ NoSubscriptionPayload => FailedLocally ]_vars

\* C20 witness: the subscription's payload generation raised PaymentError and
\* the call created the failed event.
C20_Witness ==
    /\ last.op = "trigger_transaction_request"
    /\ last.raised = ""
    /\ InSeq(<<"logger.warning", "PaymentError">>, last.trace)
    /\ Count(last.trace, "create_failed_transaction_event") = 1
    /\ last.scheduled = << >>

====
